---------------------------- MODULE Spec2Model ----------------------------
(***************************************************************************)
(* Gemini response handling of the google-common package: the safety       *)
(* handlers (DefaultGeminiSafetyHandler, MessageGeminiSafetyHandler), the  *)
(* collapse of a batch response into one payload, the builders that turn   *)
(* a response into text, generations and messages, and the "safe" wrapper  *)
(* that runs a safety handler in front of a builder.                       *)
(*                                                                         *)
(* Representation.                                                         *)
(*  - A string is a sequence of tokens: "SAFETY" is <<"SAFETY">>, the      *)
(*    empty string is <<>>, and concatenation (template literals, +) is    *)
(*    \o.  A string is truthy iff it is not <<>>.                          *)
(*  - A JavaScript object is a record; a property that is absent (or       *)
(*    undefined) is a field that is not in the record's DOMAIN.  The       *)
(*    object {} is the record with the empty domain.                       *)
(*  - The caller's response object is the variable `response`.  Its field  *)
(*    `kind` is the run-time shape of response.data the code probes for:   *)
(*    "stream" ("nextChunk" in response.data), "array"                     *)
(*    (Array.isArray(response.data)) or "single".                          *)
(*  - The payload objects inside response.data are shared, never copied:   *)
(*    every function that writes to one of them writes to the caller's     *)
(*    object.  A function of the model therefore returns a pair            *)
(*    [response |-> the caller's response after the call, out |-> what     *)
(*    the call returned or threw].                                         *)
(***************************************************************************)
EXTENDS Integers, Sequences, FiniteSets, TLC

(***************************************************************************)
(* Bounds of the model.                                                    *)
(***************************************************************************)
\* longest parts list of a candidate of an input payload
MaxParts == 1
\* longest batch (array) response
MaxBatch == 2
\* number of successive calls made on one response object
MaxCalls == 1
\* longest message content (array of content parts) and longest list of
\* provider parts handed to the codec
MaxContent == 2
\* longest payload of a data: URI, in tokens
MaxPayload == 3
\* most parameters between the mime type and the payload of a data: URI
MaxParams == 1
\* the generation parameters range over -MaxParam..MaxParam
MaxParam == 2
\* most elements of a provider stream
MaxStream == 3
\* most documents in one addVectors call
MaxDocs == 2
\* most prompts of one _generate call, and the largest batchSize
MaxPrompts == 2
\* largest number n of completions per prompt
MaxN == 2

VARIABLES
    response,       \* the caller's response object (and the payloads in it)
    safetyHandler,  \* the safety handler the caller has constructed
    pre,            \* history: the value of `response` when the last call began
    last,           \* the last call: [op, b, out]
    calls,          \* number of calls made so far
    llm,            \* the AzureOpenAI instance, its provider and its caller
    store           \* the CouchbaseVectorSearch instance and its cluster

vars == <<response, safetyHandler, pre, last, calls, llm, store>>

(***************************************************************************)
(* Objects and optional values.                                            *)
(***************************************************************************)
EmptyObject == << >>
Has(o, f) == f \in DOMAIN o
Put(o, f, v) == [k \in DOMAIN o \cup {f} |-> IF k = f THEN v ELSE o[k]]
Drop(o, f) == [k \in DOMAIN o \ {f} |-> o[k]]

\* the value of an optional chain a?.b?.c : Some(v), or None for undefined
Some(v) == [some |-> TRUE, v |-> v]
None == [some |-> FALSE]

\* how a call ends
Return(v) == [type |-> "return", value |-> v]
Throw(e) == [type |-> "throw", error |-> e]

TypeError == [name |-> "TypeError"]
Error(message) == [name |-> "Error", message |-> message]
\* the error class of ./safety.js: it keeps the response and the message it
\* is built with; `reply` is set later by whoever catches it
GoogleAISafetyError(resp, message) ==
    [name |-> "GoogleAISafetyError", response |-> resp, message |-> message]
IsSafetyError(e) == e.name = "GoogleAISafetyError"

(***************************************************************************)
(* Optional chains over a payload (GenerateContentResponseData).           *)
(***************************************************************************)
\* data?.candidates?.[0]
FirstCandidate(data) ==
    IF Has(data, "candidates") /\ Len(data.candidates) >= 1
    THEN Some(data.candidates[1])
    ELSE None

\* data?.candidates?.[0]?.content?.parts
FirstCandidateParts(data) ==
    LET c == FirstCandidate(data)
    IN  IF c.some /\ Has(c.v, "content") /\ Has(c.v.content, "parts")
        THEN Some(c.v.content.parts)
        ELSE None

\* data?.promptFeedback?.blockReason
BlockReason(data) ==
    IF Has(data, "promptFeedback") /\ Has(data.promptFeedback, "blockReason")
    THEN Some(data.promptFeedback.blockReason)
    ELSE None

\* data?.candidates?.[0]?.finishReason
FinishReason(data) ==
    LET c == FirstCandidate(data)
    IN  IF c.some /\ Has(c.v, "finishReason") THEN Some(c.v.finishReason) ELSE None

(***************************************************************************)
(* Sequencing.  A data-level result is Return(v) or Throw(e); a call-level *)
(* result is a pair [response, out] whose out is one of these.  A throw    *)
(* that nothing catches ends the caller with the same throw.               *)
(***************************************************************************)
Then(r, K(_)) == IF r.type = "throw" THEN r ELSE K(r.value)
Catch(r, K(_)) == IF r.type = "throw" THEN K(r.error) ELSE r
Call(c, K(_)) == IF c.out.type = "throw" THEN c ELSE K(c)
Returned(resp, v) == [response |-> resp, out |-> Return(v)]
Thrown(resp, e) == [response |-> resp, out |-> Throw(e)]
OrElse(o, d) == IF o.some THEN o.v ELSE d

(***************************************************************************)
(* DefaultGeminiSafetyHandler.  A handler h is its settings:               *)
(* [kind, errorFinish] and, for the message handler, msg, forceNewMessage. *)
(***************************************************************************)
DefaultErrorFinish == {<<"SAFETY">>, <<"RECITATION">>, <<"OTHER">>}

\* mutant: the message leaves the block reason out
PromptBlocked_NoReason(resp, data, blockReason) ==
    IF blockReason.some /\ blockReason.v # << >>
    THEN Throw(GoogleAISafetyError(resp, <<"Prompt blocked">>))
    ELSE Return(data)

PromptBlocked(resp, data, blockReason) ==
    IF blockReason.some /\ blockReason.v # << >>
    THEN Throw(GoogleAISafetyError(resp, <<"Prompt blocked: ">> \o blockReason.v))
    ELSE Return(data)

\* mutant: a prompt that is not blocked has its promptFeedback deleted
handleDataPromptFeedback_Deletes(resp, data) ==
    Then(PromptBlocked(resp, data, BlockReason(data)),
         LAMBDA ret : Return(Drop(ret, "promptFeedback")))

handleDataPromptFeedback(resp, data) == PromptBlocked(resp, data, BlockReason(data))

FinishBlocked(h, resp, data, finishReason) ==
    IF finishReason.some /\ finishReason.v \in h.errorFinish
    THEN Throw(GoogleAISafetyError(resp, <<"Finish reason: ">> \o finishReason.v))
    ELSE Return(data)

\* mutant: every candidate's finish reason is checked, not only the first's
handleDataFinishReason_AnyCandidate(h, resp, data) ==
    IF FinishReason(data).some /\ FinishReason(data).v \in h.errorFinish
    THEN FinishBlocked(h, resp, data, FinishReason(data))
    ELSE IF Has(data, "candidates")
            /\ \E i \in 1..Len(data.candidates) :
                  Has(data.candidates[i], "finishReason")
                  /\ data.candidates[i].finishReason \in h.errorFinish
    THEN Throw(GoogleAISafetyError(resp, <<"Finish reason: ">>
             \o data.candidates[CHOOSE i \in 1..Len(data.candidates) :
                     Has(data.candidates[i], "finishReason")
                     /\ data.candidates[i].finishReason \in h.errorFinish].finishReason))
    ELSE Return(data)

handleDataFinishReason(h, resp, data) == FinishBlocked(h, resp, data, FinishReason(data))

\* mutant: the finish reason is checked before the prompt feedback
DefaultHandleData_FinishFirst(h, resp, data) ==
    Then(handleDataFinishReason(h, resp, data),
         LAMBDA ret : handleDataPromptFeedback(resp, ret))

DefaultHandleData(h, resp, data) ==
    Then(handleDataPromptFeedback(resp, data),
         LAMBDA ret : handleDataFinishReason(h, resp, ret))

(***************************************************************************)
(* MessageGeminiSafetyHandler.                                             *)
(***************************************************************************)
\* ret.candidates = data.candidates ?? [] ... ret.candidates[0].content = {...}
NewMessage(h, data, candidates) ==
    Put(data, "candidates",
        IF Len(candidates) >= 1
        THEN [candidates EXCEPT ![1] =
                 Put(candidates[1], "content", [role |-> "model", parts |-> <<[text |-> h.msg]>>])]
        ELSE <<[content |-> [role |-> "model", parts |-> <<[text |-> h.msg]>>]]>>)

\* mutant: forceNewMessage is ignored
setMessage_IgnoresForce(h, data) ==
    IF Len(OrElse(FirstCandidateParts(data), << >>)) = 0
    THEN NewMessage(h, data, IF Has(data, "candidates") THEN data.candidates ELSE << >>)
    ELSE data

\* setMessage writes into `data` itself: what it returns is the new value of
\* the caller's payload object
setMessage(h, data) ==
    IF h.forceNewMessage \/ Len(OrElse(FirstCandidateParts(data), << >>)) = 0
    THEN NewMessage(h, data, IF Has(data, "candidates") THEN data.candidates ELSE << >>)
    ELSE data

\* mutant: the override catches nothing
MessageHandleData_Uncaught(h, resp, data) == DefaultHandleData(h, resp, data)

MessageHandleData(h, resp, data) ==
    Catch(DefaultHandleData(h, resp, data), LAMBDA xx : Return(setMessage(h, data)))

\* this.handleData(response, item): the override of the handler's class
handleData(h, resp, data) ==
    IF h.kind = "message"
    THEN MessageHandleData(h, resp, data)
    ELSE DefaultHandleData(h, resp, data)

\* response.data.map((item) => this.handleData(response, item)): the items
\* are handled in index order and a throw leaves the later ones unvisited.
\* handleData returns the very object it was given, so the value it returns
\* is also the new value of the caller's item.
RECURSIVE handleItems(_, _, _, _)
\* mutant: a throw does not stop the map, and the last throw is the one kept
handleItem_KeepGoing(h, resp, i, newdata, r) ==
    IF r.type = "throw"
    THEN IF handleItems(h, resp, i + 1, newdata).out.type = "throw"
         THEN handleItems(h, resp, i + 1, newdata)
         ELSE [response |-> resp, out |-> r]
    ELSE handleItems(h, [resp EXCEPT !.data[i] = r.value], i + 1, Append(newdata, r.value))

handleItem(h, resp, i, newdata, r) ==
    IF r.type = "throw"
    THEN [response |-> resp, out |-> r]
    ELSE handleItems(h, [resp EXCEPT !.data[i] = r.value], i + 1, Append(newdata, r.value))

handleItems(h, resp, i, newdata) ==
    IF i > Len(resp.data)
    THEN Returned(resp, newdata)
    ELSE handleItem(h, resp, i, newdata, handleData(h, resp, resp.data[i]))

\* the catch around the map, and the response built from newdata
handleArray(m) ==
    IF m.out.type = "throw"
    THEN IF IsSafetyError(m.out.error)
         THEN Thrown(m.response, GoogleAISafetyError(m.response, m.out.error.message))
         ELSE m
    ELSE Returned(m.response, [m.response EXCEPT !.data = m.out.value])

handleSingle(resp, r) ==
    IF r.type = "throw"
    THEN [response |-> resp, out |-> r]
    ELSE Returned([resp EXCEPT !.data = r.value], [resp EXCEPT !.data = r.value])

\* mutant: a stream handle is rejected like a blocked prompt
handle_RejectsStream(h, resp) ==
    IF resp.kind = "stream"
    THEN Thrown(resp, GoogleAISafetyError(resp, <<"Prompt blocked: ">>))
    ELSE IF resp.kind = "array"
    THEN handleArray(handleItems(h, resp, 1, << >>))
    ELSE handleSingle(resp, handleData(h, resp, resp.data))

handle(h, resp) ==
    IF resp.kind = "stream"
    THEN Returned(resp, [resp EXCEPT !.data = resp.data])
    ELSE IF resp.kind = "array"
    THEN handleArray(handleItems(h, resp, 1, << >>))
    ELSE handleSingle(resp, handleData(h, resp, resp.data))

(***************************************************************************)
(* The collapse of a response into one payload, and the builders.          *)
(***************************************************************************)
\* the callback of response.data.reduce(...): acc is response.data[0] itself
\* (no initial value is given) and is written in place.  Reading
\* acc.candidates[0].content.parts through an absent link is a TypeError.
reduceStep(acc, val, accParts) ==
    IF ~accParts.some
    THEN Throw(TypeError)
    ELSE Return(IF Has(val, "promptFeedback")
                THEN Put([acc EXCEPT !.candidates[1].content.parts =
                              accParts.v \o OrElse(FirstCandidateParts(val), << >>)],
                         "promptFeedback", val.promptFeedback)
                ELSE Drop([acc EXCEPT !.candidates[1].content.parts =
                               accParts.v \o OrElse(FirstCandidateParts(val), << >>)],
                          "promptFeedback"))

RECURSIVE reduceItems(_, _)
reduceItem(resp, i, r) ==
    IF r.type = "throw"
    THEN [response |-> resp, out |-> r]
    ELSE reduceItems([resp EXCEPT !.data[1] = r.value], i + 1)

reduceItems(resp, i) ==
    IF i > Len(resp.data)
    THEN Returned(resp, resp.data[1])
    ELSE reduceItem(resp, i,
                    reduceStep(resp.data[1], resp.data[i], FirstCandidateParts(resp.data[1])))

\* mutant: a stream handle is handed back as if it were a payload
responseToGenerateContentResponseData_StreamPasses(resp) ==
    IF resp.kind = "array"
    THEN IF Len(resp.data) = 0 THEN Thrown(resp, TypeError) ELSE reduceItems(resp, 2)
    ELSE Returned(resp, resp.data)

responseToGenerateContentResponseData(resp) ==
    IF resp.kind = "stream"
    THEN Thrown(resp, Error(<<"Cannot convert Stream to GenerateContentResponseData">>))
    ELSE IF resp.kind = "array"
    THEN IF Len(resp.data) = 0
         THEN \* reduce of an empty array with no initial value
              Thrown(resp, TypeError)
         ELSE reduceItems(resp, 2)
    ELSE Returned(resp, resp.data)

responseToParts(resp) ==
    Call(responseToGenerateContentResponseData(resp),
         LAMBDA n : Returned(n.response, OrElse(FirstCandidateParts(n.out.value), << >>)))

\* mutant: the data of an inlineData part counts as its text
partToText_DataAsText(part) ==
    IF Has(part, "text") THEN part.text
    ELSE IF Has(part, "inlineData") THEN part.inlineData.data
    ELSE << >>

partToText(part) == IF Has(part, "text") THEN part.text ELSE << >>

RECURSIVE concatTexts(_)
concatTexts(parts) ==
    IF parts = << >> THEN << >>
    ELSE partToText(Head(parts)) \o concatTexts(Tail(parts))

responseToString(resp) ==
    Call(responseToParts(resp), LAMBDA p : Returned(p.response, concatTexts(p.out.value)))

\* the value of parts[0] of an empty array
Undefined == [undefined |-> TRUE]
Null == [null |-> TRUE]

\* ${o.f} in a template literal: an undefined value reads "undefined"
TemplateValue(o, f) == IF Has(o, f) THEN o[f] ELSE <<"undefined">>

textPartToMessageContent(part) == [type |-> "text", text |-> part.text]

inlineDataPartToMessageContent(part) ==
    [type |-> "image_url",
     image_url |-> <<"data", ":">> \o TemplateValue(part.inlineData, "mimeType")
                   \o <<";", "base64", ",">> \o TemplateValue(part.inlineData, "data")]

fileDataPartToMessageContent(part) == [type |-> "image_url", image_url |-> part.fileData.fileUri]

\* the map callback and the `if (content)` of the reduce, for one part: the
\* content the part adds to the result, if any
partToMessageContent(part) ==
    IF part = Undefined \/ part = Null THEN << >>
    ELSE IF Has(part, "text") THEN <<textPartToMessageContent(part)>>
    ELSE IF Has(part, "inlineData") THEN <<inlineDataPartToMessageContent(part)>>
    ELSE IF Has(part, "fileData") THEN <<fileDataPartToMessageContent(part)>>
    ELSE << >>

\* mutant: each content is put in front of the ones before it
RECURSIVE partsToMessageContent_Prepends(_)
partsToMessageContent_Prepends(parts) ==
    IF parts = << >> THEN << >>
    ELSE partsToMessageContent_Prepends(Tail(parts)) \o partToMessageContent(Head(parts))

RECURSIVE partsToMessageContent(_)
partsToMessageContent(parts) ==
    IF parts = << >> THEN << >>
    ELSE partToMessageContent(Head(parts)) \o partsToMessageContent(Tail(parts))

partToMessage(part) == [type |-> "AIMessageChunk", content |-> partsToMessageContent(<<part>>)]

partToChatGeneration(part) == [text |-> partToText(part), message |-> partToMessage(part)]

\* generationInfo is the response object itself: it shows what the calls
\* have written to it
responseToGeneration(resp) ==
    Call(responseToString(resp),
         LAMBDA s : Returned(s.response, [text |-> s.out.value, generationInfo |-> s.response]))

\* mutant: the message is decoded from all the parts
responseToChatGeneration_AllParts(resp) ==
    Call(responseToString(resp),
         LAMBDA s : Call(responseToParts(s.response),
             LAMBDA p : Returned(p.response,
                 [text |-> s.out.value,
                  message |-> [type |-> "AIMessageChunk",
                               content |-> partsToMessageContent(p.out.value)],
                  generationInfo |-> p.response])))

\* text is computed first, then responseToParts collapses the response again
responseToChatGeneration(resp) ==
    Call(responseToString(resp),
         LAMBDA s : Call(responseToParts(s.response),
             LAMBDA p : Returned(p.response,
                 [text |-> s.out.value,
                  message |-> partToMessage(IF Len(p.out.value) >= 1
                                            THEN p.out.value[1] ELSE Undefined),
                  generationInfo |-> p.response])))

\* mutant: one generation for the whole response
responseToChatGenerations_OneForAll(resp) ==
    Call(responseToParts(resp),
         LAMBDA p : Returned(p.response,
             <<[text |-> concatTexts(p.out.value),
                message |-> [type |-> "AIMessageChunk",
                             content |-> partsToMessageContent(p.out.value)]]>>))

responseToChatGenerations(resp) ==
    Call(responseToParts(resp),
         LAMBDA p : Returned(p.response,
             [i \in 1..Len(p.out.value) |-> partToChatGeneration(p.out.value[i])]))

responseToMessageContent(resp) ==
    Call(responseToParts(resp),
         LAMBDA p : Returned(p.response, partsToMessageContent(p.out.value)))

responseToBaseMessage(resp) ==
    Call(responseToMessageContent(resp),
         LAMBDA c : Returned(c.response, [type |-> "ai", content |-> c.out.value]))

responseToChatResult(resp) ==
    Call(responseToChatGenerations(resp),
         LAMBDA g : Returned(g.response, [generations |-> g.out.value, llmOutput |-> g.response]))

\* the builders that have a safe wrapper
Builders ==
    {"responseToString", "responseToGeneration", "responseToChatGeneration",
     "responseToBaseMessage", "responseToChatResult"}

\* the responseTo argument of safeResponseTo, by name
responseTo(b, resp) ==
    CASE b = "responseToString" -> responseToString(resp)
      [] b = "responseToGeneration" -> responseToGeneration(resp)
      [] b = "responseToChatGeneration" -> responseToChatGeneration(resp)
      [] b = "responseToBaseMessage" -> responseToBaseMessage(resp)
      [] b = "responseToChatResult" -> responseToChatResult(resp)

\* the catch block: xx.response is the caller's response object itself, and
\* a throw of responseTo inside the catch block replaces xx
safeCatch(b, hr, xx) ==
    IF IsSafetyError(xx)
    THEN Call(responseTo(b, xx.response),
              LAMBDA ret : Thrown(ret.response,
                                  [name |-> xx.name, response |-> ret.response,
                                   message |-> xx.message, reply |-> ret.out.value]))
    ELSE hr

\* The response that handle returns is a new object around the caller's own
\* payload objects (handleData returns the item it was given), so what the
\* builder writes to them is written to the caller's response.
safeTry(b, hr) ==
    IF hr.out.type = "return"
    THEN responseTo(b, hr.out.value)
    ELSE safeCatch(b, hr, hr.out.error)

safeResponseTo(resp, h, b) == safeTry(b, handle(h, resp))

(***************************************************************************)
(* The codec from message content to provider parts.  A MessageContent is  *)
(* [string |-> s] (typeof content === "string") or [array |-> parts]; the  *)
(* image_url of an image part is [string |-> url] or the object            *)
(* [url |-> url].  A url is a string whose tokens ":", ";" and "," are     *)
(* the characters the code splits on.                                      *)
(***************************************************************************)
\* str.indexOf(sep) + 1, or 0
IndexOf(str, sep) ==
    IF \E i \in 1..Len(str) : str[i] = sep
    THEN CHOOSE i \in 1..Len(str) : str[i] = sep /\ \A j \in 1..(i - 1) : str[j] # sep
    ELSE 0

\* str.split(sep): the pieces between the separators
RECURSIVE split(_, _)
splitAt(str, sep, k) ==
    IF k = 0 THEN <<str>>
    ELSE <<SubSeq(str, 1, k - 1)>> \o split(SubSeq(str, k + 1, Len(str)), sep)

split(str, sep) == splitAt(str, sep, IndexOf(str, sep))

startsWith(str, prefix) ==
    Len(str) >= Len(prefix) /\ SubSeq(str, 1, Len(prefix)) = prefix

messageContentText(content) == [text |-> content.text]

\* url.split(",")[1] is undefined when the url has no comma
inlineData(url) ==
    IF Len(split(url, ",")) >= 2
    THEN [mimeType |-> split(split(url, ":")[2], ";")[1], data |-> split(url, ",")[2]]
    ELSE [mimeType |-> split(split(url, ":")[2], ";")[1]]

\* mutant: an empty url is not refused
imageUrlToPart_NoEmptyCheck(url) ==
    IF startsWith(url, <<"data", ":">>)
    THEN Return([inlineData |-> inlineData(url)])
    ELSE Return([fileData |-> [mimeType |-> <<"image/png">>, fileUri |-> url]])

imageUrlToPart(url) ==
    IF url = << >>
    THEN Throw(Error(<<"Missing Image URL">>))
    ELSE IF startsWith(url, <<"data", ":">>)
    THEN Return([inlineData |-> inlineData(url)])
    ELSE Return([fileData |-> [mimeType |-> <<"image/png">>, fileUri |-> url]])

messageContentImageUrl(content) ==
    imageUrlToPart(IF Has(content.image_url, "string")
                   THEN content.image_url.string
                   ELSE content.image_url.url)

\* the map callback: a switch with no default case
contentToPart(content) ==
    IF content.type = "text" THEN Return(messageContentText(content))
    ELSE IF content.type = "image_url" THEN messageContentImageUrl(content)
    ELSE Return(Undefined)

\* messageContent.map(...): in index order, and a throw ends the map
RECURSIVE contentsToParts(_)
contentsToParts(messageContent) ==
    IF messageContent = << >> THEN Return(<< >>)
    ELSE Then(contentToPart(Head(messageContent)),
              LAMBDA part : Then(contentsToParts(Tail(messageContent)),
                                 LAMBDA parts : Return(<<part>> \o parts)))

\* mutant: an empty string is encoded as no part at all
messageContentToParts_EmptyToNothing(content) ==
    contentsToParts(IF Has(content, "string")
                    THEN IF content.string = << >> THEN << >>
                         ELSE <<[type |-> "text", text |-> content.string]>>
                    ELSE content.array)

messageContentToParts(content) ==
    contentsToParts(IF Has(content, "string")
                    THEN <<[type |-> "text", text |-> content.string]>>
                    ELSE content.array)

roleMessageToContent(role, message) ==
    Then(messageContentToParts(message.content),
         LAMBDA parts : Return(<<[role |-> role, parts |-> parts]>>))

\* new AIMessage(text)
AIMessage(text) == [type |-> "ai", content |-> [string |-> text]]

\* mutant: the acknowledgment turn is left out
systemMessageToContent_NoAck(message) == roleMessageToContent("user", message)

systemMessageToContent(message) ==
    Then(roleMessageToContent("user", message),
         LAMBDA user : Then(roleMessageToContent("model", AIMessage(<<"Ok">>)),
                            LAMBDA model : Return(user \o model)))

\* message._getType() is message.type; the default case logs and returns []
baseMessageToContent(message) ==
    IF message.type = "system" THEN systemMessageToContent(message)
    ELSE IF message.type = "human" THEN roleMessageToContent("user", message)
    ELSE IF message.type = "ai" THEN roleMessageToContent("model", message)
    ELSE Return(<< >>)

(***************************************************************************)
(* validateGeminiParams.  A number is [num |-> i] or NaN; a parameter that *)
(* is not given is absent from params.                                     *)
(***************************************************************************)
Number(i) == [num |-> i]
NaN == [nan |-> TRUE]

\* `v && ...`: undefined, 0 and NaN are falsy
Truthy(v) == Has(v, "num") /\ v.num # 0
\* v < k and v > k: false when v is undefined or NaN
Lt(v, k) == Has(v, "num") /\ v.num < k
Gt(v, k) == Has(v, "num") /\ v.num > k
\* params.f
Get(params, f) == IF Has(params, f) THEN params[f] ELSE Undefined

\* (the messages: the source puts the parameter's name between backquotes)
\* mutant: the temperature is looked at first
validateGeminiParams_TemperatureFirst(params) ==
    IF Truthy(Get(params, "temperature"))
       /\ (Lt(Get(params, "temperature"), 0) \/ Gt(Get(params, "temperature"), 1))
    THEN Throw(Error(<<"temperature", " must be in the range of [0.0,1.0]">>))
    ELSE IF Truthy(Get(params, "maxOutputTokens")) /\ Lt(Get(params, "maxOutputTokens"), 0)
    THEN Throw(Error(<<"maxOutputTokens", " must be a positive integer">>))
    ELSE IF Truthy(Get(params, "topP"))
            /\ (Lt(Get(params, "topP"), 0) \/ Gt(Get(params, "topP"), 1))
    THEN Throw(Error(<<"topP", " must be in the range of [0.0,1.0]">>))
    ELSE IF Truthy(Get(params, "topK")) /\ Lt(Get(params, "topK"), 0)
    THEN Throw(Error(<<"topK", " must be a positive integer">>))
    ELSE Return(Undefined)

validateGeminiParams(params) ==
    IF Truthy(Get(params, "maxOutputTokens")) /\ Lt(Get(params, "maxOutputTokens"), 0)
    THEN Throw(Error(<<"maxOutputTokens", " must be a positive integer">>))
    ELSE IF Truthy(Get(params, "temperature"))
            /\ (Lt(Get(params, "temperature"), 0) \/ Gt(Get(params, "temperature"), 1))
    THEN Throw(Error(<<"temperature", " must be in the range of [0.0,1.0]">>))
    ELSE IF Truthy(Get(params, "topP"))
            /\ (Lt(Get(params, "topP"), 0) \/ Gt(Get(params, "topP"), 1))
    THEN Throw(Error(<<"topP", " must be in the range of [0.0,1.0]">>))
    ELSE IF Truthy(Get(params, "topK")) /\ Lt(Get(params, "topK"), 0)
    THEN Throw(Error(<<"topK", " must be a positive integer">>))
    ELSE Return(Undefined)

(***************************************************************************)
(* Inputs.                                                                 *)
(***************************************************************************)
TextA == [text |-> <<"A">>]
TextB == [text |-> <<"B">>]
\* parts that are not text: embedded data, and a reference to a file
InlineC == [inlineData |-> [mimeType |-> <<"image/png">>, data |-> <<"AAAA">>]]
FileD == [fileData |-> [mimeType |-> <<"image/png">>, fileUri |-> <<"https", ":", "//host/f">>]]
PartValues == {TextA, TextB, InlineC, FileD}
PartsLists == UNION {[1..n -> PartValues] : n \in 0..MaxParts}

Contents == {[role |-> "model"]} \cup {[role |-> "model", parts |-> ps] : ps \in PartsLists}
FinishReasons == {<<"STOP">>, <<"SAFETY">>}

Optional(o, f, vs) == {o} \cup {Put(o, f, v) : v \in vs}

\* a first candidate: content and finishReason are each optional
FirstCandidates ==
    UNION {Optional(c, "finishReason", FinishReasons) : c \in Optional(EmptyObject, "content", Contents)}
\* a candidate beyond index 0, which carries a disallowed finish reason
OtherCandidate == [content |-> [role |-> "model", parts |-> <<TextB>>], finishReason |-> <<"SAFETY">>]
CandidateLists ==
    {<< >>} \cup {<<c>> : c \in FirstCandidates} \cup {<<c, OtherCandidate>> : c \in FirstCandidates}
PromptFeedbacks == {EmptyObject, [blockReason |-> << >>], [blockReason |-> <<"SAFETY">>]}

Payloads ==
    UNION {Optional(p, "promptFeedback", PromptFeedbacks) : p \in Optional(EmptyObject, "candidates", CandidateLists)}

\* the payloads of a batch (the chunks of one answer): blocked or not, and
\* with no candidate, a candidate that ended normally, one that ended for
\* safety, or one whose content was withheld
BatchCandidateLists ==
    {<<[content |-> [role |-> "model", parts |-> <<TextA>>], finishReason |-> <<"STOP">>]>>,
     <<[content |-> [role |-> "model", parts |-> <<TextB>>], finishReason |-> <<"SAFETY">>]>>,
     <<[finishReason |-> <<"SAFETY">>]>>}
BatchPayloads ==
    UNION {Optional(p, "promptFeedback", {[blockReason |-> <<"SAFETY">>]}) :
        p \in Optional(EmptyObject, "candidates", BatchCandidateLists)}

\* the stream handle: an object with a nextChunk method
Stream == [nextChunk |-> "function"]

Singles == {[kind |-> "single", data |-> p] : p \in Payloads}
Arrays ==
    {[kind |-> "array", data |-> b] : b \in UNION {[1..n -> BatchPayloads] : n \in 0..MaxBatch}}
Streams == {[kind |-> "stream", data |-> Stream]}

Handlers ==
    {[kind |-> "default", errorFinish |-> ef] : ef \in {DefaultErrorFinish, {<<"STOP">>}}}
    \cup {[kind |-> "message", errorFinish |-> ef, msg |-> m, forceNewMessage |-> f] :
            ef \in {DefaultErrorFinish, {<<"STOP">>}},
            m \in {<< >>, <<"blocked">>},
            f \in BOOLEAN}

(***************************************************************************)
(* The caller: it holds one response object and a safety handler, and      *)
(* calls the exported functions on the response, one after the other.      *)
(***************************************************************************)
\* no AzureOpenAI instance and no CouchbaseVectorSearch instance is in use
NoLLM == [kind |-> "none"]
NoStore == [kind |-> "none"]

Init ==
    /\ \/ response \in Singles
       \/ response \in Arrays
       \/ response \in Streams
    /\ safetyHandler \in Handlers
    /\ pre = response
    /\ last = [op |-> "none"]
    /\ calls = 0
    /\ llm = NoLLM
    /\ store = NoStore

\* the call `op` (with builder b, where it takes one) ended as r
Called(op, b, r) ==
    /\ response' = r.response
    /\ pre' = response
    /\ last' = [op |-> op, b |-> b, out |-> r.out]
    /\ calls' = calls + 1
    /\ UNCHANGED <<safetyHandler, llm, store>>

Handle ==
    /\ calls < MaxCalls
    /\ Called("handle", "", handle(safetyHandler, response))

Normalize ==
    /\ calls < MaxCalls
    /\ Called("responseToGenerateContentResponseData", "",
              responseToGenerateContentResponseData(response))

ResponseToParts ==
    /\ calls < MaxCalls
    /\ Called("responseToParts", "", responseToParts(response))

ResponseTo ==
    /\ calls < MaxCalls
    /\ \E b \in Builders : Called("responseTo", b, responseTo(b, response))

SafeResponseTo ==
    /\ calls < MaxCalls
    /\ \E b \in Builders :
         Called("safeResponseTo", b, safeResponseTo(response, safetyHandler, b))

Next ==
    \/ Handle
    \/ Normalize
    \/ ResponseToParts
    \/ ResponseTo
    \/ SafeResponseTo

Spec == Init /\ [][Next]_vars

(***************************************************************************)
(* A caller of the codec: it holds one argument (a message content, a      *)
(* message or a list of provider parts) in `response` and calls the        *)
(* exported codec function that takes it.  The codec functions write       *)
(* nothing to their argument.                                              *)
(***************************************************************************)
RECURSIVE Repeat(_, _)
Repeat(str, n) == IF n = 0 THEN << >> ELSE str \o Repeat(str, n - 1)

\* data:[<mime type>][;<parameter>]*[;base64],<payload>
MimeTypes == {<< >>, <<"image/png">>}
ParamLists == {Repeat(<<";", "charset=utf-8">>, n) : n \in 0..MaxParams}
Encodings == {<< >>, <<";", "base64">>}
DataPayloads == UNION {[1..n -> {"AAAA", ","}] : n \in 0..MaxPayload}
DataUris ==
    {<<"data", ":">> \o m \o ps \o e \o <<",">> \o d :
        m \in MimeTypes, ps \in ParamLists, e \in Encodings, d \in DataPayloads}
\* the empty url, a remote url, a relative url, and strings that start with
\* "data:" and have no payload
OtherUrls ==
    {<< >>, <<"https", ":", "//host/f">>, <<"data">>, <<"data", ":">>, <<"data", ":", "image/png">>}
Urls == DataUris \cup OtherUrls

ImageContents ==
    {[type |-> "image_url", image_url |-> [string |-> u]] : u \in Urls}
    \cup {[type |-> "image_url", image_url |-> [url |-> u]] : u \in Urls}

\* the content parts of the longer contents
ContentPartValues ==
    {[type |-> "text", text |-> << >>],
     [type |-> "text", text |-> <<"X">>],
     [type |-> "image_url",
      image_url |-> [string |-> <<"data", ":", "image/png", ";", "base64", ",", "AAAA">>]],
     [type |-> "image_url", image_url |-> [url |-> <<"https", ":", "//host/f">>]],
     [type |-> "image_url", image_url |-> [string |-> << >>]],
     [type |-> "tool_use"]}

PlainStrings == {<< >>, <<"X">>, <<"data", ":", "image/png", ";", "base64", ",", "AAAA">>}

SmallContents ==
    {[string |-> str] : str \in PlainStrings}
    \cup {[array |-> a] : a \in UNION {[1..n -> ContentPartValues] : n \in 0..MaxContent}}
MessageContents == SmallContents \cup {[array |-> <<c>>] : c \in ImageContents}

MessageTypes == {"system", "human", "ai", "generic", "function"}
Messages == {[type |-> t, content |-> c] : t \in MessageTypes, c \in SmallContents}

\* provider parts: the three shapes, null, undefined, and unknown shapes
ProviderPartValues ==
    {TextA, [text |-> << >>], InlineC, FileD, Undefined, Null,
     EmptyObject, [functionCall |-> [name |-> <<"f">>]]}
ProviderParts == UNION {[1..n -> ProviderPartValues] : n \in 0..MaxContent}

CodecInit ==
    /\ \/ response \in {[kind |-> "content", data |-> c] : c \in MessageContents}
       \/ response \in {[kind |-> "message", data |-> m] : m \in Messages}
       \/ response \in {[kind |-> "parts", data |-> ps] : ps \in ProviderParts}
    /\ safetyHandler = [kind |-> "default", errorFinish |-> DefaultErrorFinish]
    /\ pre = response
    /\ last = [op |-> "none"]
    /\ calls = 0
    /\ llm = NoLLM
    /\ store = NoStore

MessageContentToParts ==
    /\ calls < MaxCalls
    /\ response.kind = "content"
    /\ Called("messageContentToParts", "",
              [response |-> response, out |-> messageContentToParts(response.data)])

BaseMessageToContent ==
    /\ calls < MaxCalls
    /\ response.kind = "message"
    /\ Called("baseMessageToContent", "",
              [response |-> response, out |-> baseMessageToContent(response.data)])

PartsToMessageContent ==
    /\ calls < MaxCalls
    /\ response.kind = "parts"
    /\ Called("partsToMessageContent", "",
              Returned(response, partsToMessageContent(response.data)))

CodecNext ==
    \/ MessageContentToParts
    \/ BaseMessageToContent
    \/ PartsToMessageContent

CodecSpec == CodecInit /\ [][CodecNext]_vars

(***************************************************************************)
(* A caller of validateGeminiParams: it holds the params in `response`.    *)
(***************************************************************************)
NumberValues == {Number(i) : i \in (0 - MaxParam)..MaxParam} \cup {NaN}

ParamsValues ==
    UNION {Optional(p3, "topK", NumberValues) :
        p3 \in UNION {Optional(p2, "topP", NumberValues) :
            p2 \in UNION {Optional(p1, "temperature", NumberValues) :
                p1 \in Optional(EmptyObject, "maxOutputTokens", NumberValues)}}}

ParamsInit ==
    /\ response \in {[kind |-> "params", data |-> p] : p \in ParamsValues}
    /\ safetyHandler = [kind |-> "default", errorFinish |-> DefaultErrorFinish]
    /\ pre = response
    /\ last = [op |-> "none"]
    /\ calls = 0
    /\ llm = NoLLM
    /\ store = NoStore

ValidateGeminiParams ==
    /\ calls < MaxCalls
    /\ Called("validateGeminiParams", "",
              [response |-> response, out |-> validateGeminiParams(response.data)])

ParamsNext == ValidateGeminiParams

ParamsSpec == ParamsInit /\ [][ParamsNext]_vars

(***************************************************************************)
(* AzureOpenAI._streamResponseChunks: an async generator over the stream   *)
(* of the provider.  `llm` holds one run of it: the elements the provider  *)
(* will emit, those the generator received, what the consumer saw (chunks  *)
(* and the error that ended the run), the abort signal, and where the      *)
(* generator stands: "start", "awaiting" the provider's next element,      *)
(* "suspended" at the yield, or "done".                                    *)
(***************************************************************************)
GenerationChunk(fields) == fields

ChunkEvent(chunk) == [kind |-> "chunk", chunk |-> chunk]
ErrorEvent(e) == [kind |-> "error", error |-> e]

\* the error with which the provider's stream rejects once it was aborted
ProviderAbortError == [name |-> "AbortError", message |-> <<"The operation was aborted.">>]

\* before the loop: the deployment name must be there
streamStart(s) ==
    IF ~s.deploymentName
    THEN [s EXCEPT !.events = Append(@, ErrorEvent(Error(<<"Azure OpenAI Completion Deployment name not found">>))),
                   !.pc = "done"]
    ELSE [s EXCEPT !.pc = "awaiting"]

\* mutant: an element that arrives after the abort is dropped with the error
streamData_AbortFirst(s, data) ==
    IF s.aborted
    THEN [s EXCEPT !.received = Append(@, data),
                   !.events = Append(@, ErrorEvent(Error(<<"AbortError">>))),
                   !.pc = "done"]
    ELSE IF data.choices = << >>
    THEN [s EXCEPT !.received = Append(@, data)]
    ELSE [s EXCEPT !.received = Append(@, data),
                   !.events = Append(@, ChunkEvent(GenerationChunk(
                                  [text |-> data.choices[1].text,
                                   generationInfo |-> [finishReason |-> data.choices[1].finishReason]]))),
                   !.pc = "suspended"]

\* the body of the loop, for the element `data`
streamData(s, data) ==
    IF data.choices = << >>
    THEN [s EXCEPT !.received = Append(@, data)]
    ELSE [s EXCEPT !.received = Append(@, data),
                   !.events = Append(@, ChunkEvent(GenerationChunk(
                                  [text |-> data.choices[1].text,
                                   generationInfo |-> [finishReason |-> data.choices[1].finishReason]]))),
                   !.pc = "suspended"]

\* after the loop
streamEnd(s) ==
    IF s.aborted
    THEN [s EXCEPT !.events = Append(@, ErrorEvent(Error(<<"AbortError">>))), !.pc = "done"]
    ELSE [s EXCEPT !.pc = "done"]

ChoiceA == [text |-> <<"a">>, finishReason |-> <<"length">>]
ChoiceB == [text |-> <<"b">>, finishReason |-> <<"stop">>]
StreamElements ==
    {[choices |-> << >>], [choices |-> <<ChoiceA>>], [choices |-> <<ChoiceB>>],
     [choices |-> <<ChoiceB, ChoiceA>>]}
ProviderStreams == UNION {[1..n -> StreamElements] : n \in 0..MaxStream}

StreamInit ==
    /\ response = [kind |-> "none"]
    /\ safetyHandler = [kind |-> "default", errorFinish |-> DefaultErrorFinish]
    /\ pre = response
    /\ last = [op |-> "none"]
    /\ calls = 0
    /\ llm \in {[kind |-> "stream", deploymentName |-> d, provider |-> p, received |-> << >>,
                 events |-> << >>, aborted |-> FALSE, pc |-> "start"] :
                    d \in BOOLEAN, p \in ProviderStreams}
    /\ store = NoStore

\* the consumer asks for the first chunk
StreamStart ==
    /\ llm.pc = "start"
    /\ llm' = streamStart(llm)
    /\ UNCHANGED <<response, safetyHandler, pre, last, calls, store>>

\* the provider emits its next element
StreamData ==
    /\ llm.pc = "awaiting"
    /\ Len(llm.received) < Len(llm.provider)
    /\ llm' = streamData(llm, llm.provider[Len(llm.received) + 1])
    /\ UNCHANGED <<response, safetyHandler, pre, last, calls, store>>

\* the consumer asks for the next chunk
StreamResume ==
    /\ llm.pc = "suspended"
    /\ llm' = [llm EXCEPT !.pc = "awaiting"]
    /\ UNCHANGED <<response, safetyHandler, pre, last, calls, store>>

\* the provider's stream ends: after its last element, or early once aborted
StreamEnd ==
    /\ llm.pc = "awaiting"
    /\ Len(llm.received) = Len(llm.provider) \/ llm.aborted
    /\ llm' = streamEnd(llm)
    /\ UNCHANGED <<response, safetyHandler, pre, last, calls, store>>

\* the provider's stream rejects, which it does only once aborted
StreamRejects ==
    /\ llm.pc = "awaiting"
    /\ llm.aborted
    /\ llm' = [llm EXCEPT !.events = Append(@, ErrorEvent(ProviderAbortError)), !.pc = "done"]
    /\ UNCHANGED <<response, safetyHandler, pre, last, calls, store>>

\* the caller sets the abort signal
StreamAbort ==
    /\ llm.pc # "done"
    /\ ~llm.aborted
    /\ llm' = [llm EXCEPT !.aborted = TRUE]
    /\ UNCHANGED <<response, safetyHandler, pre, last, calls, store>>

StreamNext ==
    \/ StreamStart
    \/ StreamData
    \/ StreamResume
    \/ StreamEnd
    \/ StreamRejects
    \/ StreamAbort

StreamSpec == StreamInit /\ [][StreamNext]_vars

(***************************************************************************)
(* CouchbaseVectorSearch.  `store` holds one instance together with the    *)
(* cluster behind it: whether the index exists, how far the verifyIndexes  *)
(* call of the constructor got, the collection (key -> value), how many    *)
(* uuids were drawn and how many search requests the cluster was sent;     *)
(* `added` remembers the document last upserted under each key.  A string  *)
(* of the store is [str |-> tokens].                                       *)
(***************************************************************************)
Str(t) == [str |-> t]
Document(fields) == fields

textKey == "text"
embeddingKey == "text_embedding"
metadataKey == "metadata"
indexName == <<"idx">>

uuid(n) == "uuid" \o ToString(n)

\* array[index]
At(array, index) == IF index \in DOMAIN array THEN array[index] ELSE Undefined
\* delete o[f]
Remove(o, f) == [k \in DOMAIN o \ {f} |-> o[k]]

\* the Embeddings of the instance: a vector that the text determines
embedQuery(text) == [vector |-> text]
embedDocuments(texts) == [i \in DOMAIN texts |-> embedQuery(texts[i])]

\* verifyIndexes, once getAllIndexes has answered
verifyIndexes(s) ==
    IF s.indexExists
    THEN Return(Undefined)
    ELSE Throw(Error(<<"Index ">> \o indexName
                     \o <<" does not exist. Please create the index before searching.">>))

\* the entries of documentsToInsert
documentsToInsert(ids, vectors, documents, metadata) ==
    [index \in DOMAIN ids |->
        [key |-> ids[index],
         value |-> [text |-> At(documents, index),
                    text_embedding |-> At(vectors, index),
                    metadata |-> At(metadata, index)]]]

\* mutant: the first upsert that fails ends the loop
RECURSIVE upsertAll_StopsAtFailure(_, _, _, _)
upsertAll_StopsAtFailure(acc, toInsert, i, fail) ==
    IF i > Len(toInsert) THEN acc
    ELSE IF i \in fail
    THEN acc
    ELSE upsertAll_StopsAtFailure(
            [collection |-> Put(acc.collection, toInsert[i].key, toInsert[i].value),
             docIds |-> Append(acc.docIds, toInsert[i].key)],
            toInsert, i + 1, fail)

\* the upsert loop from entry i on; the upserts of the entries in `fail`
\* are rejected by the cluster
RECURSIVE upsertAll(_, _, _, _)
upsertAll(acc, toInsert, i, fail) ==
    IF i > Len(toInsert) THEN acc
    ELSE IF i \in fail
    THEN upsertAll(acc, toInsert, i + 1, fail)
    ELSE upsertAll(
            [collection |-> Put(acc.collection, toInsert[i].key, toInsert[i].value),
             docIds |-> Append(acc.docIds, toInsert[i].key)],
            toInsert, i + 1, fail)

\* the ids and the metadata addVectors works with
idsOf(s, documents, options) ==
    IF Has(options, "ids") THEN options.ids
    ELSE [i \in 1..Len(documents) |-> uuid(s.uuids + i)]
metadataOf(documents, options) ==
    IF Has(options, "metadata") THEN options.metadata
    ELSE [i \in 1..Len(documents) |-> EmptyObject]

\* addVectors: the instance afterwards and the outcome
addVectors(s, vectors, documents, options, fail) ==
    [store |-> [s EXCEPT
                   !.collection =
                       upsertAll([collection |-> s.collection, docIds |-> << >>],
                                 documentsToInsert(idsOf(s, documents, options), vectors, documents,
                                                   metadataOf(documents, options)),
                                 1, fail).collection,
                   !.uuids = IF Has(options, "ids") THEN @ ELSE @ + Len(documents)],
     out |-> Return(upsertAll([collection |-> s.collection, docIds |-> << >>],
                              documentsToInsert(idsOf(s, documents, options), vectors, documents,
                                                metadataOf(documents, options)),
                              1, fail).docIds)]

addDocuments(s, documents, options, fail) ==
    addVectors(s, embedDocuments([i \in DOMAIN documents |-> documents[i].pageContent]),
               documents, options, fail)

\* the rows the cluster answers with: the requested fields of the values
\* stored under the keys `keys`
searchRows(s, keys) ==
    [i \in DOMAIN keys |->
        [id |-> keys[i],
         score |-> 1,
         fields |-> [text |-> s.collection[keys[i]].text,
                     metadata |-> s.collection[keys[i]].metadata]]]

\* the loop over the rows
docsWithScore(rows) ==
    [i \in DOMAIN rows |->
        <<Document([pageContent |-> Get(rows[i].fields, textKey),
                    metadata |-> Remove(rows[i].fields, textKey)]),
          rows[i].score>>]

\* similaritySearchVectorWithScore: the request goes out; a cluster without
\* the index rejects it
similaritySearchVectorWithScore(s, keys) ==
    [store |-> [s EXCEPT !.sent = @ + 1],
     out |-> IF s.indexExists
             THEN Return(docsWithScore(searchRows(s, keys)))
             ELSE Throw(Error(<<"Search failed with error: ", "index not found">>))]

\* up to MaxDocs documents with texts of their own
Documents(n) ==
    [i \in 1..n |-> Document([pageContent |-> Str(<<"doc" \o ToString(i)>>), metadata |-> EmptyObject])]
DocumentLists == {Documents(n) : n \in 0..MaxDocs}
\* options: no ids, or one id per document
AddVectorOptions(n) == {EmptyObject, [ids |-> [i \in 1..n |-> "id" \o ToString(i)]]}
\* the keys of the rows of an answer: no row, or (with k = 1) one row
RowKeys(s) == {<< >>} \cup {<<k>> : k \in DOMAIN s.collection}

\* the documents last upserted under the returned keys
Added(s, ids, documents, fail) ==
    [k \in DOMAIN s.added \cup {ids[i] : i \in DOMAIN ids \ fail} |->
        IF \E i \in DOMAIN ids \ fail : ids[i] = k
        THEN documents[CHOOSE i \in DOMAIN ids \ fail :
                          ids[i] = k /\ \A j \in DOMAIN ids \ fail : ids[j] = k => j <= i]
        ELSE s.added[k]]

\* the state after `new CouchbaseVectorSearch(...)`
StoreInit ==
    /\ response = [kind |-> "none"]
    /\ safetyHandler = [kind |-> "default", errorFinish |-> DefaultErrorFinish]
    /\ pre = response
    /\ last = [op |-> "none"]
    /\ calls = 0
    /\ llm = NoLLM
    /\ store \in {[kind |-> "couchbase", indexExists |-> e, verify |-> "pending",
                   unhandled |-> FALSE, collection |-> EmptyObject, added |-> EmptyObject,
                   uuids |-> 0, sent |-> 0] : e \in BOOLEAN}

\* getAllIndexes answers the verifyIndexes call of the constructor; nobody
\* holds its promise
VerifyIndexes ==
    /\ store.verify = "pending"
    /\ store' = [store EXCEPT !.verify = IF verifyIndexes(store).type = "return" THEN "ok" ELSE "failed",
                              !.unhandled = verifyIndexes(store).type = "throw"]
    /\ UNCHANGED <<response, safetyHandler, pre, last, calls, llm>>

\* the caller adds documents at most MaxCalls times and searches at most
\* MaxCalls times
AddVectors ==
    /\ calls < MaxCalls
    /\ \E documents \in DocumentLists :
         \E options \in AddVectorOptions(Len(documents)) :
           \E fail \in SUBSET (1..Len(documents)) :
              /\ store' = [addVectors(store, [i \in DOMAIN documents |-> embedQuery(Str(<<"v">>))],
                                      documents, options, fail).store
                             EXCEPT !.added = Added(store, idsOf(store, documents, options), documents, fail)]
              /\ last' = [op |-> "addVectors", documents |-> documents, options |-> options,
                          ids |-> idsOf(store, documents, options), fail |-> fail,
                          out |-> addVectors(store, [i \in DOMAIN documents |-> embedQuery(Str(<<"v">>))],
                                             documents, options, fail).out]
    /\ calls' = calls + 1
    /\ UNCHANGED <<response, safetyHandler, pre, llm>>

AddDocuments ==
    /\ calls < MaxCalls
    /\ \E documents \in DocumentLists :
         \E options \in AddVectorOptions(Len(documents)) :
           \E fail \in SUBSET (1..Len(documents)) :
              /\ store' = [addDocuments(store, documents, options, fail).store
                             EXCEPT !.added = Added(store, idsOf(store, documents, options), documents, fail)]
              /\ last' = [op |-> "addDocuments", documents |-> documents, options |-> options,
                          ids |-> idsOf(store, documents, options), fail |-> fail,
                          out |-> addDocuments(store, documents, options, fail).out]
    /\ calls' = calls + 1
    /\ UNCHANGED <<response, safetyHandler, pre, llm>>

SimilaritySearchVectorWithScore ==
    /\ store.sent < MaxCalls
    /\ \E keys \in RowKeys(store) :
          /\ store' = similaritySearchVectorWithScore(store, keys).store
          /\ last' = [op |-> "similaritySearchVectorWithScore", keys |-> keys,
                      verify |-> store.verify, sent |-> store'.sent - store.sent,
                      out |-> similaritySearchVectorWithScore(store, keys).out]
    /\ UNCHANGED <<response, safetyHandler, pre, calls, llm>>

StoreNext ==
    \/ VerifyIndexes
    \/ AddVectors
    \/ AddDocuments
    \/ SimilaritySearchVectorWithScore

StoreSpec == StoreInit /\ [][StoreNext]_vars

(***************************************************************************)
(* AzureOpenAI._generate.  `llm` holds one instance: its maxTokens (and    *)
(* the maxTokens it was constructed with), n, batchSize, streaming and     *)
(* whether a deployment name is configured.  The provider answers a        *)
(* request for prompts ps with n choices per prompt, the choice of prompt  *)
(* number p (from 0) and completion j having index p * n + j within the    *)
(* request; a stream carries the text of every choice in two fragments.    *)
(* The token usage of the result is left out.                              *)
(***************************************************************************)
\* chunkArray of @langchain/core
chunkArray(arr, chunkSize) ==
    [c \in 1..((Len(arr) + chunkSize - 1) \div chunkSize) |->
        SubSeq(arr, (c - 1) * chunkSize + 1,
               IF c * chunkSize < Len(arr) THEN c * chunkSize ELSE Len(arr))]

\* calculateMaxTokens of @langchain/core: what the context leaves after the prompt
calculateMaxTokens(prompt) == 4097 - Len(prompt)

\* the two fragments of completion j of a prompt
fragments(prompt, j) == << <<prompt \o ToString(j)>>, <<".">> >>

\* the answer of client.getCompletions
getCompletions(ps, n) ==
    [choices |->
        [c \in 1..(Len(ps) * n) |->
            [text |-> fragments(ps[((c - 1) \div n) + 1], (c - 1) % n)[1]
                      \o fragments(ps[((c - 1) \div n) + 1], (c - 1) % n)[2],
             index |-> c - 1,
             finishReason |-> <<"stop">>]]]

\* the messages of the stream of client.streamCompletions
streamCompletions(ps, n) ==
    [f \in 1..2 |->
        [choices |->
            [c \in 1..(Len(ps) * n) |->
                [text |-> fragments(ps[((c - 1) \div n) + 1], (c - 1) % n)[f],
                 index |-> c - 1,
                 finishReason |-> IF f = 2 THEN <<"stop">> ELSE << >>]]]]

\* `for (const part of message.choices)`, from part k on
RECURSIVE updateChoices(_, _, _)
updateChoices(choices, parts, k) ==
    IF k > Len(parts) THEN choices
    ELSE IF parts[k].index + 1 > Len(choices)
    THEN updateChoices(Append(choices, parts[k]), parts, k + 1)
    ELSE updateChoices(
            [choices EXCEPT ![parts[k].index + 1] =
                [@ EXCEPT !.text = @ \o parts[k].text, !.finishReason = parts[k].finishReason]],
            parts, k + 1)

\* `for await (const message of stream)`, from message m on
RECURSIVE readStream(_, _, _)
readStream(choices, stream, m) ==
    IF m > Len(stream) THEN choices
    ELSE readStream(updateChoices(choices, stream[m].choices, 1), stream, m + 1)

\* the streaming loop over the sub-batches, from sub-batch i on
RECURSIVE streamBatches(_, _, _, _, _)
streamBatches(choices, subPrompts, i, n, aborted) ==
    IF i > Len(subPrompts) THEN Return(choices)
    ELSE IF aborted THEN Throw(Error(<<"AbortError">>))
    ELSE streamBatches(readStream(choices, streamCompletions(subPrompts[i], n), 1),
                       subPrompts, i + 1, n, aborted)

\* the loop over the sub-batches without streaming, from sub-batch i on
RECURSIVE completeBatches(_, _, _, _, _)
completeBatches(choices, prompts, subPrompts, i, n) ==
    IF i > Len(subPrompts) THEN Return(choices)
    ELSE completeBatches(choices \o getCompletions(prompts, n).choices,
                         prompts, subPrompts, i + 1, n)

\* the generations made of the choices
generationsOf(choices, n) ==
    [generations |->
        [g \in DOMAIN chunkArray(choices, n) |->
            [k \in DOMAIN chunkArray(choices, n)[g] |->
                [text |-> chunkArray(choices, n)[g][k].text,
                 generationInfo |-> [finishReason |-> chunkArray(choices, n)[g][k].finishReason]]]]]

\* the end of _generate: the error, or the generations of the choices
generationsFrom(s, choices) ==
    IF choices.type = "throw"
    THEN [response |-> s, out |-> choices]
    ELSE [response |-> s, out |-> Return(generationsOf(choices.value, s.n))]

\* _generate once maxTokens is settled
generateBatches(s, prompts, aborted) ==
    IF s.streaming
    THEN generationsFrom(s, streamBatches(<< >>, chunkArray(prompts, s.batchSize), 1, s.n, aborted))
    ELSE generationsFrom(s, completeBatches(<< >>, prompts, chunkArray(prompts, s.batchSize), 1, s.n))

\* _generate: the instance afterwards (as response) and the outcome
generate(s, prompts, aborted) ==
    IF ~s.deploymentName
    THEN [response |-> s, out |-> Throw(Error(<<"Azure OpenAI Completion Deployment name not found">>))]
    ELSE IF s.maxTokens = -1 /\ Len(prompts) # 1
    THEN [response |-> s,
          out |-> Throw(Error(<<"max_tokens set to -1 not supported for multiple inputs">>))]
    ELSE IF s.maxTokens = -1
    THEN generateBatches([s EXCEPT !.maxTokens = calculateMaxTokens(prompts[1])], prompts, aborted)
    ELSE generateBatches(s, prompts, aborted)

PromptLists == UNION {[1..p -> {"p", "q"}] : p \in 0..MaxPrompts}

\* the state after `new AzureOpenAI(fields)`
GenerateInit ==
    /\ response = [kind |-> "none"]
    /\ safetyHandler = [kind |-> "default", errorFinish |-> DefaultErrorFinish]
    /\ pre = response
    /\ last = [op |-> "none"]
    /\ calls = 0
    /\ llm \in {[kind |-> "azure", deploymentName |-> d, maxTokens |-> m, fields |-> [maxTokens |-> m],
                 n |-> n, batchSize |-> b, streaming |-> st] :
                    d \in BOOLEAN, m \in {-1, 256}, n \in 1..MaxN, b \in 1..MaxPrompts,
                    st \in BOOLEAN}
    /\ store = NoStore

Generate ==
    /\ calls < MaxCalls
    /\ \E prompts \in PromptLists, aborted \in BOOLEAN :
          /\ llm' = generate(llm, prompts, aborted).response
          /\ last' = [op |-> "_generate", prompts |-> prompts, aborted |-> aborted,
                      out |-> generate(llm, prompts, aborted).out]
    /\ pre' = llm
    /\ calls' = calls + 1
    /\ UNCHANGED <<response, safetyHandler, store>>

GenerateNext == Generate

GenerateSpec == GenerateInit /\ [][GenerateNext]_vars

(***************************************************************************)
(* What the claims speak of, stated over payloads as the caller sees them. *)
(***************************************************************************)
Strict == safetyHandler.kind = "default"
Recovering == safetyHandler.kind = "message"

\* promptFeedback.blockReason is set and not the empty string
Blocked(p) ==
    /\ Has(p, "promptFeedback")
    /\ Has(p.promptFeedback, "blockReason")
    /\ p.promptFeedback.blockReason # << >>

HasFirstCandidate(p) == Has(p, "candidates") /\ Len(p.candidates) >= 1

\* candidates[0].finishReason is one of the handler's errorFinish reasons
FinishDisallowed(h, p) ==
    /\ HasFirstCandidate(p)
    /\ Has(p.candidates[1], "finishReason")
    /\ p.candidates[1].finishReason \in h.errorFinish

Rejected(h, p) == Blocked(p) \/ FinishDisallowed(h, p)

\* the message of the rejection of a rejected payload
RejectionMessage(h, p) ==
    IF Blocked(p)
    THEN <<"Prompt blocked: ">> \o p.promptFeedback.blockReason
    ELSE <<"Finish reason: ">> \o p.candidates[1].finishReason

\* the first candidate has at least one part
HasParts(p) ==
    /\ HasFirstCandidate(p)
    /\ Has(p.candidates[1], "content")
    /\ Has(p.candidates[1].content, "parts")
    /\ Len(p.candidates[1].content.parts) >= 1

\* candidates[0].content.parts, or the empty list when a link is absent
PartsOf(p) == IF HasParts(p) THEN p.candidates[1].content.parts ELSE << >>

\* the parts of the first candidates of the items, in item order
RECURSIVE AllParts(_)
AllParts(items) ==
    IF items = << >> THEN << >>
    ELSE PartsOf(Head(items)) \o AllParts(Tail(items))

Placeholder(h) == [role |-> "model", parts |-> <<[text |-> h.msg]>>]

\* q is what the recovering handler h makes of the rejected payload p
RecoveredAs(h, p, q) ==
    IF h.forceNewMessage \/ ~HasParts(p)
    THEN HasFirstCandidate(q) /\ Has(q.candidates[1], "content")
         /\ q.candidates[1].content = Placeholder(h)
    ELSE HasFirstCandidate(q) /\ Has(q.candidates[1], "content")
         /\ q.candidates[1].content = p.candidates[1].content

Contains(str, token) == \E i \in 1..Len(str) : str[i] = token

ThrewSafetyError(message) ==
    /\ last.out.type = "throw"
    /\ last.out.error.name = "GoogleAISafetyError"
    /\ last.out.error.message = message

StrictHandleOfSingle == last.op = "handle" /\ Strict /\ pre.kind = "single"
StrictHandleOfArray == last.op = "handle" /\ Strict /\ pre.kind = "array"
RecoveringHandleOfSingle == last.op = "handle" /\ Recovering /\ pre.kind = "single"

(***************************************************************************)
(* The claims.                                                             *)
(***************************************************************************)
\* C1: for a single payload whose promptFeedback.blockReason is set and not
\* empty, the strict handler throws a safety error with the message
\* "Prompt blocked: <blockReason>", whatever the first candidate's
\* finishReason is: the prompt check comes before the finish-reason check.
C1_PromptBlockedFirst ==
    (StrictHandleOfSingle /\ Blocked(pre.data))
        => ThrewSafetyError(<<"Prompt blocked: ">> \o pre.data.promptFeedback.blockReason)

\* a payload that fails both checks was reported as a blocked prompt
C1_Witness ==
    /\ StrictHandleOfSingle
    /\ Blocked(pre.data)
    /\ FinishDisallowed(safetyHandler, pre.data)
    /\ last.out.type = "throw"

\* C2: for a single payload with no block reason the strict handler throws
\* "Finish reason: <r>" iff candidates[0].finishReason is in the configured
\* errorFinish set, and otherwise returns a response whose data is the input
\* payload; the finish reasons of later candidates never matter.
C2_FinishReasonIff ==
    (StrictHandleOfSingle /\ ~Blocked(pre.data))
        => IF FinishDisallowed(safetyHandler, pre.data)
           THEN ThrewSafetyError(<<"Finish reason: ">> \o pre.data.candidates[1].finishReason)
           ELSE /\ last.out.type = "return"
                /\ last.out.value.kind = "single"
                /\ last.out.value.data = pre.data

\* a payload was accepted although its second candidate ended for a
\* disallowed reason
C2_Witness ==
    /\ StrictHandleOfSingle
    /\ ~Blocked(pre.data)
    /\ Has(pre.data, "candidates")
    /\ Len(pre.data.candidates) >= 2
    /\ pre.data.candidates[2].finishReason \in safetyHandler.errorFinish
    /\ last.out.type = "return"

\* C3: for a batch under the strict handler the safety error that reaches
\* the caller has the message of the lowest-index rejected item and carries
\* the whole batch response; with no rejected item, handle returns a
\* response whose data is the same items in the same order.
C3_BatchFirstRejection ==
    StrictHandleOfArray
        => LET rejected == {i \in 1..Len(pre.data) : Rejected(safetyHandler, pre.data[i])}
           IN  IF rejected # {}
               THEN LET first == CHOOSE i \in rejected : \A j \in rejected : i <= j
                    IN  /\ ThrewSafetyError(RejectionMessage(safetyHandler, pre.data[first]))
                        /\ last.out.error.response = pre
               ELSE /\ last.out.type = "return"
                    /\ last.out.value.kind = "array"
                    /\ last.out.value.data = pre.data

\* two items of a batch were rejectable, with different messages
C3_Witness ==
    /\ StrictHandleOfArray
    /\ Len(pre.data) >= 2
    /\ Rejected(safetyHandler, pre.data[1])
    /\ Rejected(safetyHandler, pre.data[2])
    /\ RejectionMessage(safetyHandler, pre.data[1]) # RejectionMessage(safetyHandler, pre.data[2])
    /\ last.out.type = "throw"

\* C4: the strict handler does not write to its input: after handle has
\* returned or thrown, the caller's response (single, batch or stream) and
\* every payload in it are what they were before the call.
C4_StrictLeavesInput ==
    (last.op = "handle" /\ Strict) => response = pre

\* the strict handler rejected a batch
C4_Witness ==
    /\ StrictHandleOfArray
    /\ Len(pre.data) >= 2
    /\ last.out.type = "throw"

\* C5: for a rejected payload the recovering handler returns the payload
\* with candidates[0].content = {role: "model", parts: [{text: msg}]} when
\* forceNewMessage is set or the first candidate has no parts, and with its
\* original content otherwise; a payload that is not rejected is returned
\* as it is.
C5_ReplacementRule ==
    RecoveringHandleOfSingle
        => /\ last.out.type = "return"
           /\ last.out.value.kind = "single"
           /\ IF Rejected(safetyHandler, pre.data)
              THEN RecoveredAs(safetyHandler, pre.data, last.out.value.data)
              ELSE last.out.value.data = pre.data

\* a rejected payload with no candidates at all was given the placeholder
C5_Witness ==
    /\ RecoveringHandleOfSingle
    /\ Rejected(safetyHandler, pre.data)
    /\ ~Has(pre.data, "candidates")
    /\ last.out.type = "return"
    /\ last.out.value.data.candidates[1].content = Placeholder(safetyHandler)

\* C6, as stated: for a payload with promptFeedback.blockReason = "SAFETY"
\* the strict handler throws a safety error whose message contains
\* "SAFETY", and the recovering handler returns a payload whose sole part is
\* the placeholder text.
C6_Original ==
    (last.op = "handle" /\ pre.kind = "single" /\ Blocked(pre.data)
     /\ pre.data.promptFeedback.blockReason = <<"SAFETY">>)
        => IF Strict
           THEN /\ last.out.type = "throw"
                /\ last.out.error.name = "GoogleAISafetyError"
                /\ Contains(last.out.error.message, "SAFETY")
           ELSE /\ last.out.type = "return"
                /\ PartsOf(last.out.value.data) = <<[text |-> safetyHandler.msg]>>

\* C6, amended: for a payload with promptFeedback.blockReason = "SAFETY"
\* the strict handler throws a safety error whose message contains
\* "SAFETY"; the recovering handler returns a payload whose sole part is
\* the placeholder text when forceNewMessage is set or the payload's first
\* candidate has no parts, and otherwise returns the payload with the parts
\* it had.
C6_Amended ==
    (last.op = "handle" /\ pre.kind = "single" /\ Blocked(pre.data)
     /\ pre.data.promptFeedback.blockReason = <<"SAFETY">>)
        => IF Strict
           THEN /\ last.out.type = "throw"
                /\ last.out.error.name = "GoogleAISafetyError"
                /\ Contains(last.out.error.message, "SAFETY")
           ELSE /\ last.out.type = "return"
                /\ PartsOf(last.out.value.data) =
                       IF safetyHandler.forceNewMessage \/ ~HasParts(pre.data)
                       THEN <<[text |-> safetyHandler.msg]>>
                       ELSE PartsOf(pre.data)

\* the recovering handler answered a blocked prompt with the placeholder
C6_Witness ==
    /\ RecoveringHandleOfSingle
    /\ Blocked(pre.data)
    /\ pre.data.promptFeedback.blockReason = <<"SAFETY">>
    /\ last.out.type = "return"
    /\ PartsOf(last.out.value.data) = <<[text |-> safetyHandler.msg]>>

\* C7: the recovering handler never lets a safety error out: for a single
\* payload and for a batch, handle returns; in a batch every rejected item
\* is recovered on its own and every other item is returned as it is.
C7_RecoveringNeverThrows ==
    (last.op = "handle" /\ Recovering /\ pre.kind # "stream")
        => /\ last.out.type = "return"
           /\ pre.kind = "array" =>
                /\ Len(last.out.value.data) = Len(pre.data)
                /\ \A i \in 1..Len(pre.data) :
                     IF Rejected(safetyHandler, pre.data[i])
                     THEN RecoveredAs(safetyHandler, pre.data[i], last.out.value.data[i])
                     ELSE last.out.value.data[i] = pre.data[i]

\* a batch with a rejected first item and an accepted second item came back
C7_Witness ==
    /\ last.op = "handle" /\ Recovering /\ pre.kind = "array"
    /\ Len(pre.data) >= 2
    /\ Rejected(safetyHandler, pre.data[1])
    /\ ~Rejected(safetyHandler, pre.data[2])
    /\ last.out.type = "return"
    /\ last.out.value.data[1] # pre.data[1]

\* C8: the safe wrapper returns builder(handled response) when the handler
\* accepts the response; when the handler throws a safety error the wrapper
\* throws that error, with its reply set to builder(the original response),
\* and returns nothing.
C8_SafeWrapper ==
    last.op = "safeResponseTo"
        => IF handle(safetyHandler, pre).out.type = "return"
           THEN last.out = responseTo(last.b, handle(safetyHandler, pre).out.value).out
           ELSE /\ ThrewSafetyError(handle(safetyHandler, pre).out.error.message)
                /\ Has(last.out.error, "reply")
                /\ responseTo(last.b, pre).out.type = "return"
                /\ last.out.error.reply = responseTo(last.b, pre).out.value

\* C9: for a batch of one or more payloads the collapsed payload's
\* candidates[0].content.parts is the concatenation, in item order, of each
\* item's candidates[0].content.parts, an item without that chain adding
\* nothing.
C9_BatchPartsConcatenated ==
    (last.op = "responseToGenerateContentResponseData"
     /\ pre.kind = "array" /\ Len(pre.data) >= 1)
        => /\ last.out.type = "return"
           /\ PartsOf(last.out.value) = AllParts(pre.data)

\* C10: for a non-empty batch the collapsed payload's promptFeedback is the
\* promptFeedback of the last item of the batch, absent when the last item
\* has none, whatever the earlier items carried.
C10_LastPromptFeedback ==
    (last.op = "responseToGenerateContentResponseData"
     /\ pre.kind = "array" /\ Len(pre.data) >= 1)
        => /\ last.out.type = "return"
           /\ Has(last.out.value, "promptFeedback") = Has(pre.data[Len(pre.data)], "promptFeedback")
           /\ Has(last.out.value, "promptFeedback")
                => last.out.value.promptFeedback = pre.data[Len(pre.data)].promptFeedback

\* C11: normalize dispatches on the shape of the response: for a stream
\* handle it throws the error "Cannot convert Stream to
\* GenerateContentResponseData" and yields no payload; for a single payload
\* it returns that payload, with the candidates and the promptFeedback it
\* had, and writes nothing to the response.
C11_NormalizeDispatch ==
    last.op = "responseToGenerateContentResponseData"
        => /\ pre.kind = "stream" =>
                /\ last.out = Throw(Error(<<"Cannot convert Stream to GenerateContentResponseData">>))
                /\ response = pre
           /\ pre.kind = "single" =>
                /\ last.out = Return(pre.data)
                /\ response = pre

\* the collapse of a stream handle was refused
C11_Witness ==
    /\ last.op = "responseToGenerateContentResponseData"
    /\ pre.kind = "stream"
    /\ last.out.type = "throw"
    /\ last.out.error.name = "Error"

\* C12: responseToParts never fails on a response that is not a stream: for
\* every single payload and every batch (the empty batch, and batches whose
\* first or later items lack candidates, content or parts, included) it
\* returns the collapsed payload's candidates[0].content.parts, or the
\* empty list when a link of that chain is absent.
C12_ExtractPartsTotal ==
    (last.op = "responseToParts" /\ pre.kind # "stream")
        => /\ last.out.type = "return"
           /\ last.out.value = IF pre.kind = "single"
                               THEN PartsOf(pre.data)
                               ELSE AllParts(pre.data)

\* the concatenation, in order, of the text of the text parts of a list
RECURSIVE TextsOf(_)
TextsOf(parts) ==
    IF parts = << >> THEN << >>
    ELSE (IF Has(Head(parts), "text") THEN Head(parts).text ELSE << >>) \o TextsOf(Tail(parts))

BuilderCalled(b) == last.op = "responseTo" /\ last.b = b

CodecCalled(op) == last.op = op

\* the content is an array holding one image part
SingleImage(content) ==
    /\ Has(content, "array")
    /\ Len(content.array) = 1
    /\ content.array[1].type = "image_url"

\* the url of an image part, in either form
ImageUrlOf(c) == IF Has(c.image_url, "string") THEN c.image_url.string ELSE c.image_url.url

\* data:[<mime type>][;<parameter>]*[;base64],<payload>
ValidDataUri(u) == u \in DataUris

\* C14: for every valid data: URI u, decoding the provider part that
\* encoding the image reference u gives yields the image reference u again,
\* with the same mime type and payload; data URIs with parameters before
\* ";base64", without base64, or with a comma in the payload included.
C14_DataUriRoundTrip ==
    (CodecCalled("messageContentToParts") /\ SingleImage(pre.data)
     /\ ValidDataUri(ImageUrlOf(pre.data.array[1])))
        => /\ last.out.type = "return"
           /\ partsToMessageContent(last.out.value) =
                  <<[type |-> "image_url", image_url |-> ImageUrlOf(pre.data.array[1])]>>

\* C15: for every plain string s, the empty string included, decoding the
\* parts that encoding s gives yields exactly one content part, the text s.
C15_StringRoundTrip ==
    (CodecCalled("messageContentToParts") /\ Has(pre.data, "string"))
        => /\ last.out.type = "return"
           /\ partsToMessageContent(last.out.value) =
                  <<[type |-> "text", text |-> pre.data.string]>>

\* the empty string came back as one text part
C15_Witness ==
    /\ CodecCalled("messageContentToParts")
    /\ Has(pre.data, "string")
    /\ pre.data.string = << >>
    /\ last.out.type = "return"
    /\ Len(partsToMessageContent(last.out.value)) = 1

\* what the claims call encode(X): the parts of the message's content
EncodedAs(role, message) ==
    IF messageContentToParts(message.content).type = "return"
    THEN Return(<<[role |-> role, parts |-> messageContentToParts(message.content).value]>>)
    ELSE messageContentToParts(message.content)

\* C16: baseMessageToContent dispatches on the kind of the message: a
\* system message with content X gives two entries, {role "user", parts
\* encode(X)} and then {role "model", parts [text "Ok"]}; a human message
\* gives one entry of role "user" and an ai message one entry of role
\* "model"; any other kind gives the empty list and no error, whatever its
\* content.  (Where encoding the content throws, that throw is the outcome.)
C16_MessageKindDispatch ==
    CodecCalled("baseMessageToContent")
        => CASE pre.data.type = "system" ->
                    IF EncodedAs("user", pre.data).type = "return"
                    THEN last.out = Return(EncodedAs("user", pre.data).value
                                           \o <<[role |-> "model", parts |-> <<[text |-> <<"Ok">>]>>]>>)
                    ELSE last.out = EncodedAs("user", pre.data)
             [] pre.data.type = "human" -> last.out = EncodedAs("user", pre.data)
             [] pre.data.type = "ai" -> last.out = EncodedAs("model", pre.data)
             [] OTHER -> last.out = Return(<< >>)

\* the system message "X" became the user turn "X" and the model turn "Ok"
C16_Witness ==
    /\ CodecCalled("baseMessageToContent")
    /\ pre.data = [type |-> "system", content |-> [string |-> <<"X">>]]
    /\ last.out = Return(<<[role |-> "user", parts |-> <<[text |-> <<"X">>]>>],
                           [role |-> "model", parts |-> <<[text |-> <<"Ok">>]>>]>>)

IsImage(c) == c.type = "image_url"
StartsWithData(u) == Len(u) >= 2 /\ u[1] = "data" /\ u[2] = ":"

\* C17: encoding a content fails, with the error "Missing Image URL", iff
\* the url of one of its image parts is the empty string, in the string
\* form or in the {url} form; an image part whose url is not empty and does
\* not start with "data:" becomes fileData {mimeType "image/png", fileUri
\* url}, and one whose url starts with "data:" becomes inlineData, never
\* fileData.
C17_ImageUrlEncoding ==
    (CodecCalled("messageContentToParts") /\ Has(pre.data, "array"))
        => /\ last.out.type = "throw"
                <=> \E i \in 1..Len(pre.data.array) :
                       IsImage(pre.data.array[i]) /\ ImageUrlOf(pre.data.array[i]) = << >>
           /\ last.out.type = "throw" => last.out.error = Error(<<"Missing Image URL">>)
           /\ last.out.type = "return" =>
                /\ Len(last.out.value) = Len(pre.data.array)
                /\ \A i \in 1..Len(pre.data.array) :
                     IsImage(pre.data.array[i]) =>
                        IF StartsWithData(ImageUrlOf(pre.data.array[i]))
                        THEN /\ Has(last.out.value[i], "inlineData")
                             /\ ~Has(last.out.value[i], "fileData")
                        ELSE last.out.value[i] =
                                 [fileData |-> [mimeType |-> <<"image/png">>,
                                                fileUri |-> ImageUrlOf(pre.data.array[i])]]

\* an image part {url: ""} was refused
C17_Witness ==
    /\ CodecCalled("messageContentToParts")
    /\ SingleImage(pre.data)
    /\ Has(pre.data.array[1].image_url, "url")
    /\ pre.data.array[1].image_url.url = << >>
    /\ last.out.type = "throw"

\* a provider part of one of the three shapes
Recognised(part) ==
    /\ part # Undefined
    /\ part # Null
    /\ Has(part, "text") \/ Has(part, "inlineData") \/ Has(part, "fileData")

DecodingOf(part) ==
    IF Has(part, "text") THEN [type |-> "text", text |-> part.text]
    ELSE IF Has(part, "inlineData")
    THEN [type |-> "image_url",
          image_url |-> <<"data", ":">> \o part.inlineData.mimeType
                        \o <<";", "base64", ",">> \o part.inlineData.data]
    ELSE [type |-> "image_url", image_url |-> part.fileData.fileUri]

RECURSIVE DecodingsOf(_)
DecodingsOf(parts) ==
    IF parts = << >> THEN << >>
    ELSE (IF Recognised(Head(parts)) THEN <<DecodingOf(Head(parts))>> ELSE << >>)
         \o DecodingsOf(Tail(parts))

\* C18: for every list of provider parts, partsToMessageContent returns
\* the decodings of the recognised parts (text, inlineData, fileData) in the
\* order of the input; the result is as long as there are recognised parts,
\* null, undefined and unknown shapes are left out, and nothing is thrown.
C18_DecodeKeepsOrder ==
    CodecCalled("partsToMessageContent")
        => /\ last.out = Return(DecodingsOf(pre.data))
           /\ Len(last.out.value) =
                  Cardinality({i \in 1..Len(pre.data) : Recognised(pre.data[i])})

\* a null part in front of a text part was left out
C18_Witness ==
    /\ CodecCalled("partsToMessageContent")
    /\ Len(pre.data) = 2
    /\ pre.data[1] = Null
    /\ Recognised(pre.data[2])
    /\ last.out.type = "return"
    /\ Len(last.out.value) = 1

C21_BuildersArePure ==
    (last.op \in {"responseToGenerateContentResponseData", "responseToParts", "responseTo"}
     /\ pre.kind = "array")
        => /\ response = pre
           /\ last.op = "responseTo" => responseTo(last.b, response).out = last.out

\* C26: when the strict handler rejects a single or batch response (a
\* blocked batch whose items carry no candidates included), every safe
\* wrapper ends with a safety error that carries the caller's response and
\* a reply, and never with an error of another kind thrown while the reply
\* is computed.
C26_RejectionNotMasked ==
    (last.op = "safeResponseTo" /\ Strict /\ pre.kind # "stream"
     /\ handle(safetyHandler, pre).out.type = "throw"
     /\ IsSafetyError(handle(safetyHandler, pre).out.error))
        => /\ last.out.type = "throw"
           /\ IsSafetyError(last.out.error)
           /\ last.out.error.response = response
           /\ Has(last.out.error, "reply")

\* C27: a stream handle is never checked: handle of either handler returns
\* a response with the stream handle as its data and throws nothing, and
\* every safe wrapper on a stream handle ends with the error "Cannot
\* convert Stream to GenerateContentResponseData", which carries no reply.
C27_StreamNotChecked ==
    pre.kind = "stream"
        => /\ last.op = "handle" =>
                /\ last.out = Return(pre)
                /\ response = pre
           /\ last.op = "safeResponseTo" =>
                /\ last.out = Throw(Error(<<"Cannot convert Stream to GenerateContentResponseData">>))
                /\ ~Has(last.out.error, "reply")
                /\ response = pre

\* a safe wrapper was called on a stream handle with the recovering handler
C27_Witness ==
    /\ last.op = "safeResponseTo"
    /\ pre.kind = "stream"
    /\ Recovering
    /\ last.out.type = "throw"
    /\ last.out.error.name = "Error"

(***************************************************************************)
(* The claim about validateGeminiParams, under ParamsSpec.                 *)
(***************************************************************************)
\* the parameter is given, is a number, and is below zero
Negative(p, f) == Has(p, f) /\ Has(p[f], "num") /\ p[f].num < 0
\* the parameter is given, is a number, and is below zero or above one
OutsideUnit(p, f) == Has(p, f) /\ Has(p[f], "num") /\ (p[f].num < 0 \/ p[f].num > 1)

\* C22: validateGeminiParams throws iff maxOutputTokens < 0, or
\* temperature is outside [0,1], or topP is outside [0,1], or topK < 0;
\* parameters that are not given and the values 0 and 1 are accepted; the
\* error is that of the first violated parameter in the order
\* maxOutputTokens, temperature, topP, topK.
C22_ValidateParams ==
    last.op = "validateGeminiParams"
        => last.out =
              IF Negative(pre.data, "maxOutputTokens")
              THEN Throw(Error(<<"maxOutputTokens", " must be a positive integer">>))
              ELSE IF OutsideUnit(pre.data, "temperature")
              THEN Throw(Error(<<"temperature", " must be in the range of [0.0,1.0]">>))
              ELSE IF OutsideUnit(pre.data, "topP")
              THEN Throw(Error(<<"topP", " must be in the range of [0.0,1.0]">>))
              ELSE IF Negative(pre.data, "topK")
              THEN Throw(Error(<<"topK", " must be a positive integer">>))
              ELSE Return(Undefined)

\* maxOutputTokens and temperature were both out of range, and the error
\* is the one of maxOutputTokens
C22_Witness ==
    /\ last.op = "validateGeminiParams"
    /\ Negative(pre.data, "maxOutputTokens")
    /\ OutsideUnit(pre.data, "temperature")
    /\ last.out = Throw(Error(<<"maxOutputTokens", " must be a positive integer">>))

(***************************************************************************)
(* The claim about _streamResponseChunks, under StreamSpec.                *)
(***************************************************************************)
\* the chunks the elements es decode to: the first choice of each element
\* that has one
RECURSIVE ChunksOf(_)
ChunksOf(es) ==
    IF es = << >> THEN << >>
    ELSE (IF Len(Head(es).choices) = 0 THEN << >>
          ELSE <<[kind |-> "chunk",
                  chunk |-> [text |-> Head(es).choices[1].text,
                             generationInfo |-> [finishReason |-> Head(es).choices[1].finishReason]]]>>)
         \o ChunksOf(Tail(es))

IsAbortError(ev) == ev.kind = "error" /\ ev.error \in {Error(<<"AbortError">>), ProviderAbortError}

\* C23: the consumer sees one chunk per received element that has a first
\* choice, in the provider's order, elements without a choice skipped;
\* the abort error comes only once the signal is set and every received
\* element has been yielded, and nothing comes after an error.
C23_StreamOrderAndAbort ==
    llm.kind = "stream"
        => /\ llm.received = SubSeq(llm.provider, 1, Len(llm.received))
           /\ SelectSeq(llm.events, LAMBDA ev : ev.kind = "chunk") = ChunksOf(llm.received)
           /\ \A i \in 1..Len(llm.events) :
                 /\ llm.events[i].kind = "error" => i = Len(llm.events) /\ llm.pc = "done"
                 /\ IsAbortError(llm.events[i])
                       => /\ llm.aborted
                          /\ SubSeq(llm.events, 1, i - 1) = ChunksOf(llm.received)

\* a run that was aborted before the provider had emitted everything: an
\* element without a choice was skipped, a chunk was yielded, and the
\* generator's own abort error ended the run
C23_Witness ==
    /\ llm.kind = "stream"
    /\ llm.pc = "done"
    /\ Len(llm.received) < Len(llm.provider)
    /\ \E i \in 1..Len(llm.received) : llm.received[i].choices = << >>
    /\ Len(llm.events) >= 2
    /\ llm.events[1].kind = "chunk"
    /\ llm.events[Len(llm.events)] = [kind |-> "error", error |-> Error(<<"AbortError">>)]

(***************************************************************************)
(* The claims about CouchbaseVectorSearch, under StoreSpec.                *)
(***************************************************************************)
\* the ids whose upsert did not fail, in input order
RECURSIVE Written(_, _, _)
Written(ids, fail, i) ==
    IF i > Len(ids) THEN << >>
    ELSE (IF i \in fail THEN << >> ELSE <<ids[i]>>) \o Written(ids, fail, i + 1)

Adding == last.op \in {"addVectors", "addDocuments"}

\* C24: addVectors returns the ids of the documents that were written, in
\* input order: the supplied ids when every upsert succeeds; an id whose
\* upsert fails is left out, nothing is raised, and the other documents
\* are upserted all the same.
C24_AddVectorsReturnsWrittenIds ==
    Adding
        => /\ last.out = Return(Written(last.ids, last.fail, 1))
           /\ Has(last.options, "ids") => last.ids = last.options.ids
           /\ Has(last.options, "ids") /\ last.fail = {}
                 => last.out.value = last.options.ids /\ Len(last.out.value) = Len(last.documents)
           /\ \A i \in DOMAIN last.ids :
                 i \notin last.fail
                    => /\ Has(store.collection, last.ids[i])
                       /\ \E j \in DOMAIN last.ids :
                             /\ j \notin last.fail
                             /\ last.ids[j] = last.ids[i]
                             /\ store.collection[last.ids[i]].text = last.documents[j]

\* two documents with supplied ids, the upsert of the first one failed:
\* only the second id is returned and the second document is stored
C24_Witness ==
    /\ last.op = "addVectors"
    /\ Has(last.options, "ids")
    /\ Len(last.documents) = 2
    /\ last.fail = {1}
    /\ last.out = Return(<<last.ids[2]>>)
    /\ Has(store.collection, last.ids[2])

\* C25: a row of a search result that refers to a stored document is
\* decoded into a Document whose pageContent is the pageContent of the
\* document that was added, with the text key gone from its metadata.
C25_StoreSearchRoundTrip ==
    last.op = "similaritySearchVectorWithScore" /\ last.out.type = "return"
        => \A i \in DOMAIN last.keys :
              /\ last.out.value[i][1].pageContent = store.added[last.keys[i]].pageContent
              /\ ~Has(last.out.value[i][1].metadata, textKey)

\* C30: the index check of the constructor is over before a search request
\* goes out, and when the index does not exist the caller gets the error
\* "Index ... does not exist" and no request is sent.
C30_VerifiedBeforeSearch ==
    last.op = "similaritySearchVectorWithScore"
        => /\ last.verify # "pending"
           /\ ~store.indexExists
                 => /\ last.sent = 0
                    /\ last.out = Throw(Error(<<"Index ">> \o indexName
                           \o <<" does not exist. Please create the index before searching.">>))

(***************************************************************************)
(* The claims about AzureOpenAI._generate, under GenerateSpec.             *)
(***************************************************************************)
\* the text the provider produces for completion j of a prompt
TextOf(prompt, j) == <<prompt \o ToString(j), ".">>

\* C28: _generate returns one list per prompt, the i-th with the n
\* completions of prompt i, each text the in-order concatenation of what
\* the provider produced for it; with and without streaming, and with
\* more prompts than batchSize.
C28_GenerateOnePerPrompt ==
    last.op = "_generate" /\ last.out.type = "return"
        => /\ Len(last.out.value.generations) = Len(last.prompts)
           /\ \A i \in 1..Len(last.out.value.generations) :
                 /\ Len(last.out.value.generations[i]) = pre.n
                 /\ \A j \in 1..Len(last.out.value.generations[i]) :
                       i <= Len(last.prompts)
                          => last.out.value.generations[i][j].text = TextOf(last.prompts[i], j - 1)

\* C29: an instance constructed with maxTokens = -1 keeps maxTokens = -1
\* over its _generate calls, and each of its calls with more than one
\* prompt fails with "max_tokens set to -1 not supported for multiple inputs".
C29_MaxTokensStable ==
    llm.kind = "azure" /\ llm.fields.maxTokens = -1
        => /\ llm.maxTokens = -1
           /\ last.op = "_generate" /\ pre.deploymentName /\ Len(last.prompts) > 1
                 => last.out = Throw(Error(<<"max_tokens set to -1 not supported for multiple inputs">>))

=============================================================================
